---- MODULE Spec2Model ----
(***************************************************************************)
(* A model of the hybrid-search RAG service: the score normalizer and the  *)
(* Pinecone gateway (app/utils/vector_store.py), the ingestion and query   *)
(* orchestration (app/services/rag_service.py) and the HTTP handlers that  *)
(* call them (app/routers, app/models/schemas.py).                         *)
(*                                                                         *)
(* Three specifications share the variables:                               *)
(*   SpecNorm     hybrid_score_norm applied to bounded inputs;             *)
(*   SpecGateway  VectorStore called directly, any batch size;             *)
(*   Spec         the HTTP handlers on top of RAGService.                  *)
(***************************************************************************)
EXTENDS Integers, Sequences, FiniteSets

VARIABLES
    store,   \* the Pinecone index: a set of [key, id, text] stored records
    up,      \* the upload in flight (upload_vectors and what led to it)
    q,       \* the query in flight (query_document / RAGService.query)
    del,     \* the last delete_namespace / delete_document call
    nm       \* the last hybrid_score_norm call made on its own

vars == <<store, up, q, del, nm>>

(***************************************************************************)
(* Bounds of the model.                                                    *)
(***************************************************************************)
MaxDim == 2          \* longest dense / sparse vector handed to the normalizer
MaxVal == 1          \* vector components range over -1..MaxVal
MaxRecords == 3      \* longest record list handed to upload_vectors directly
MaxBatch == 2        \* largest batch size handed to upload_vectors directly
MaxChunks == 2       \* most chunks a loaded document splits into
MaxK == 2            \* largest top_k a client asks for

(***************************************************************************)
(* Floats.  A float is modelled as an exact rational in lowest terms, so   *)
(* that v * alpha and v * (1 - alpha) are computed, not assumed; rounding  *)
(* is not modelled.  AlphaDen is the grid on which alpha is drawn.         *)
(***************************************************************************)
AlphaDen == 4

Abs(n) == IF n < 0 THEN -n ELSE n

RECURSIVE Gcd(_, _)
Gcd(a, b) == IF b = 0 THEN a ELSE Gcd(b, a % b)

Rat(n, d) == LET g == Gcd(Abs(n), d) IN [num |-> n \div g, den |-> d \div g]

Float(v) == Rat(v, 1)

Mul(x, y) == Rat(x.num * y.num, x.den * y.den)

OneMinus(a) == Rat(a.den - a.num, a.den)

Less(x, y) == x.num * y.den < y.num * x.den

(***************************************************************************)
(* Python exceptions: the class and the message (the pieces of the         *)
(* f-string, in order).                                                    *)
(***************************************************************************)
NoError == [kind |-> "none", msg |-> <<>>]

ValueError(msg) == [kind |-> "ValueError", msg |-> msg]

ProviderError(msg) == [kind |-> "PineconeException", msg |-> msg]

(***************************************************************************)
(* hybrid_score_norm(dense, sparse, alpha).  argDense and argSparse are    *)
(* the argument objects as the call leaves them: the comprehensions build  *)
(* new lists, and the indices list is shared, not written.                 *)
(***************************************************************************)
NormSwapped(dense, sparse, alpha) ==
    IF Less(alpha, Float(0)) \/ Less(Float(1), alpha)
    THEN [ok |-> FALSE, error |-> ValueError(<<"Alpha must be between 0 and 1">>),
          dense |-> <<>>, sparse |-> [indices |-> <<>>, values |-> <<>>],
          argDense |-> dense, argSparse |-> sparse]
    ELSE [ok |-> TRUE, error |-> NoError,
          dense |-> [i \in 1..Len(dense) |-> Mul(dense[i], OneMinus(alpha))],
          sparse |-> [indices |-> sparse.indices,
                      values |-> [i \in 1..Len(sparse.values) |->
                                     Mul(sparse.values[i], alpha)]],
          argDense |-> dense, argSparse |-> sparse]

hybrid_score_norm(dense, sparse, alpha) ==
    IF Less(alpha, Float(0)) \/ Less(Float(1), alpha)
    THEN [ok |-> FALSE, error |-> ValueError(<<"Alpha must be between 0 and 1">>),
          dense |-> <<>>, sparse |-> [indices |-> <<>>, values |-> <<>>],
          argDense |-> dense, argSparse |-> sparse]
    ELSE [ok |-> TRUE, error |-> NoError,
          dense |-> [i \in 1..Len(dense) |-> Mul(dense[i], alpha)],
          sparse |-> [indices |-> sparse.indices,
                      values |-> [i \in 1..Len(sparse.values) |->
                                     Mul(sparse.values[i], OneMinus(alpha))]],
          argDense |-> dense, argSparse |-> sparse]

(***************************************************************************)
(* Inputs of the normalizer: vectors of at most MaxDim components in       *)
(* -1..MaxVal, sparse indices as Pinecone's BM25 encoder gives them        *)
(* (distinct term ids), alpha on the grid -1/AlphaDen .. 1 + 1/AlphaDen.   *)
(***************************************************************************)
SeqsUpTo(S, n) == UNION {[1..m -> S] : m \in 0..n}

Components == {Float(v) : v \in -1..MaxVal}

DenseVectors == SeqsUpTo(Components, MaxDim)

SparseVectors ==
    {[indices |-> [i \in 1..Len(vs) |-> 10 * i + 1], values |-> vs] :
        vs \in SeqsUpTo(Components, MaxDim)}

Alphas == {Rat(a, AlphaDen) : a \in -1..(AlphaDen + 1)}

\* alpha's default, 0.5, with the two boundaries and one value out of range.
DefaultAlpha == Rat(1, 2)

CallAlphas == {Rat(-1, AlphaDen), Float(0), DefaultAlpha, Float(1)}

NoNormResult ==
    [ok |-> FALSE, error |-> NoError, dense |-> <<>>,
     sparse |-> [indices |-> <<>>, values |-> <<>>],
     argDense |-> <<>>, argSparse |-> [indices |-> <<>>, values |-> <<>>]]

IdleNorm ==
    [pc |-> "idle", dense |-> <<>>, sparse |-> [indices |-> <<>>, values |-> <<>>],
     alpha |-> Float(0), dense0 |-> <<>>,
     sparse0 |-> [indices |-> <<>>, values |-> <<>>], out |-> NoNormResult]

NormCall ==
    /\ nm.pc = "ready"
    /\ LET r == hybrid_score_norm(nm.dense, nm.sparse, nm.alpha)
       IN nm' = [nm EXCEPT !.pc = "done", !.out = r,
                           !.dense = r.argDense, !.sparse = r.argSparse]
    /\ UNCHANGED <<store, up, q, del>>

(***************************************************************************)
(* Strings are sequences of characters.  The namespaces clients send:      *)
(* one already in normal form, the same one with capitals, an inner space  *)
(* and a trailing space, another namespace, and one of spaces only.        *)
(***************************************************************************)
EmptyStr == <<>>

MyBook == <<"m", "y", "_", "b", "o", "o", "k">>

RawMyBook == <<"M", "y", " ", "B", "o", "o", "k", " ">>

Notes == <<"n", "o", "t", "e", "s">>

Blank == <<" ", " ">>

RawNames == {MyBook, RawMyBook, Notes, Blank}

GatewayNames == {EmptyStr, MyBook, Notes}

(***************************************************************************)
(* The records process_document assembles: id "{namespace}#chunk{n}" and   *)
(* the chunk's text in the metadata.  The dense and sparse values of a     *)
(* record are functions of its text and are left out.                      *)
(***************************************************************************)
Doc == "pdf"

Vector(namespace, doc, n) ==
    [id |-> [ns |-> namespace, chunk |-> n], text |-> <<doc, n>>]

Min(a, b) == IF a < b THEN a ELSE b

(***************************************************************************)
(* The Pinecone index, as the gateway uses it.  A stored record is a       *)
(* vector under a namespace key.  upsert overwrites by id within the       *)
(* namespace; delete_all of a namespace that holds nothing changes         *)
(* nothing; describe_index_stats names the namespaces that hold records.   *)
(***************************************************************************)
index_upsert(st, batch, namespace) ==
    LET ids == {batch[j].id : j \in 1..Len(batch)}
    IN {r \in st : ~(r.key = namespace /\ r.id \in ids)}
       \cup {[key |-> namespace, id |-> batch[j].id, text |-> batch[j].text] :
                j \in 1..Len(batch)}

index_delete_all(st, namespace) == {r \in st : r.key # namespace}

describe_index_stats(st) == {r.key : r \in st}

(***************************************************************************)
(* index.query: the top_k records of the namespace by descending score.    *)
(* The score depends on vectors the model leaves out, so the ranking is    *)
(* an input: by ascending or by descending chunk number.                   *)
(***************************************************************************)
Rankings == {"asc", "desc"}

RECURSIVE Top(_, _, _)
Top(recs, n, ranking) ==
    IF n = 0 \/ recs = {} THEN <<>>
    ELSE LET first == CHOOSE r \in recs : \A o \in recs :
                          IF ranking = "asc" THEN r.id.chunk <= o.id.chunk
                                             ELSE r.id.chunk >= o.id.chunk
         IN <<first>> \o Top(recs \ {first}, n - 1, ranking)

index_query(st, namespace, top_k, ranking) ==
    Top({r \in st : r.key = namespace}, top_k, ranking)

(***************************************************************************)
(* VectorStore.upload_vectors.  The entry checks, then one iteration of    *)
(* the for loop per step: the upload is not atomic, other calls run        *)
(* between two batches.                                                    *)
(***************************************************************************)
\* Two fields of an upload's record are history, not state of the code:
\* fresh, the namespace held nothing when a direct call was entered, and cut,
\* how many calls of a fresh upload had been made when its namespace was last
\* deleted.
DefaultBatchSize == 50

Ceil(n, b) == (n + b - 1) \div b

Slice(s, from, to) == SubSeq(s, from + 1, Min(to, Len(s)))

IdleUp ==
    [pc |-> "idle", via |-> "none", raw |-> EmptyStr, ns |-> EmptyStr,
     vectors |-> <<>>, batch_size |-> 0, i |-> 0, total_batches |-> 0,
     current_batch |-> 0, calls |-> <<>>, nChunks |-> 0, nEmb |-> 0, nSp |-> 0,
     error |-> NoError, status |-> 0, fresh |-> FALSE, cut |-> 0]

upload_vectors(u, vectors, namespace, batch_size) ==
    IF vectors = <<>>
    THEN [u EXCEPT !.pc = "done", !.ns = namespace, !.vectors = vectors,
                   !.batch_size = batch_size]
    ELSE IF namespace = EmptyStr
    THEN [u EXCEPT !.pc = "done", !.ns = namespace, !.vectors = vectors,
                   !.batch_size = batch_size,
                   !.error = ValueError(<<"Namespace is required for uploading vectors">>)]
    ELSE [u EXCEPT !.pc = "loop", !.ns = namespace, !.vectors = vectors,
                   !.batch_size = batch_size, !.i = 0,
                   !.total_batches = Ceil(Len(vectors), batch_size)]

\* A slice that stops one record short.
LoopBatchShort(u) == Slice(u.vectors, u.i, u.i + u.batch_size - 1)

\* The batch the iteration at offset i sends: vectors[i:i + batch_size].
LoopBatch(u) == Slice(u.vectors, u.i, u.i + u.batch_size)

\* A failed provider call is sent again: the loop stays at its offset.
IterRetries(u, fails) ==
    LET batch == LoopBatch(u)
        call == [batch |-> batch, namespace |-> u.ns]
        current == (u.i \div u.batch_size) + 1
    IN IF fails
       THEN [u EXCEPT !.current_batch = current,
                      !.calls = Append(@, call),
                      !.error = ProviderError(<<"upsert failed">>)]
       ELSE [u EXCEPT !.pc = IF u.i + u.batch_size < Len(u.vectors)
                             THEN "loop" ELSE "done",
                      !.current_batch = current,
                      !.calls = Append(@, call),
                      !.i = u.i + u.batch_size]

\* The loop body at offset u.i; fails: the provider call raises.
upload_vectors_iter(u, fails) ==
    LET batch == LoopBatch(u)
        call == [batch |-> batch, namespace |-> u.ns]
        current == (u.i \div u.batch_size) + 1
    IN IF fails
       THEN [u EXCEPT !.pc = "done", !.current_batch = current,
                      !.calls = Append(@, call),
                      !.error = ProviderError(<<"upsert failed">>)]
       ELSE [u EXCEPT !.pc = IF u.i + u.batch_size < Len(u.vectors)
                             THEN "loop" ELSE "done",
                      !.current_batch = current,
                      !.calls = Append(@, call),
                      !.i = u.i + u.batch_size]

\* Every iteration sends the records up to the end of its batch again.
StoreBatchesSoFar(st, u, fails) ==
    IF fails THEN st
    ELSE index_upsert(st, Slice(u.vectors, 0, u.i + u.batch_size), u.ns)

\* What the iteration leaves in the index.
upload_vectors_store(st, u, fails) ==
    IF fails THEN st ELSE index_upsert(st, LoopBatch(u), u.ns)

\* The loop run to its end with no provider failure.
RECURSIVE RunBatches(_)
RunBatches(u) ==
    IF u.pc = "loop" THEN RunBatches(upload_vectors_iter(u, FALSE)) ELSE u

(***************************************************************************)
(* VectorStore.delete_namespace and VectorStore.list_namespaces.           *)
(***************************************************************************)
\* delete_all sent without the namespace argument.
DeleteEverything(st, namespace) ==
    IF namespace = EmptyStr
    THEN [error |-> ValueError(<<"Namespace is required">>), called |-> FALSE,
          store |-> st]
    ELSE [error |-> NoError, called |-> TRUE, store |-> {}]

\* The provider call left out.
DeleteNothing(st, namespace) ==
    IF namespace = EmptyStr
    THEN [error |-> ValueError(<<"Namespace is required">>), called |-> FALSE,
          store |-> st]
    ELSE [error |-> NoError, called |-> TRUE, store |-> st]

delete_namespace(st, namespace) ==
    IF namespace = EmptyStr
    THEN [error |-> ValueError(<<"Namespace is required">>), called |-> FALSE,
          store |-> st]
    ELSE [error |-> NoError, called |-> TRUE,
          store |-> index_delete_all(st, namespace)]

list_namespaces(st) == describe_index_stats(st)

(***************************************************************************)
(* VectorStore.similarity_search.  An Optional argument is a sequence of   *)
(* at most one element.  params is what index.query is called with.        *)
(***************************************************************************)
None == <<>>

Some(x) == <<x>>

NoParams ==
    [namespace |-> EmptyStr, top_k |-> 0, vector |-> <<>>, sparse_vector |-> None]

Match(r) == [id |-> r.id, text |-> r.text]

Matches(recs) == [j \in 1..Len(recs) |-> Match(recs[j])]

\* The vectors handed to index.query as they came in.
SearchUnscaled(st, query_embedding, namespace, k, query_sparse_vector, alpha, ranking) ==
    IF namespace = EmptyStr
    THEN [error |-> ValueError(<<"Namespace is required for similarity search">>),
          called |-> FALSE, params |-> NoParams, matches |-> <<>>]
    ELSE [error |-> NoError, called |-> TRUE,
          params |-> [namespace |-> namespace, top_k |-> k,
                      vector |-> query_embedding,
                      sparse_vector |-> query_sparse_vector],
          matches |-> Matches(index_query(st, namespace, k, ranking))]

similarity_search(st, query_embedding, namespace, k, query_sparse_vector, alpha, ranking) ==
    IF namespace = EmptyStr
    THEN [error |-> ValueError(<<"Namespace is required for similarity search">>),
          called |-> FALSE, params |-> NoParams, matches |-> <<>>]
    ELSE IF query_sparse_vector # None
    THEN LET n == hybrid_score_norm(query_embedding, query_sparse_vector[1], alpha)
         IN IF ~n.ok
            THEN [error |-> n.error, called |-> FALSE, params |-> NoParams,
                  matches |-> <<>>]
            ELSE [error |-> NoError, called |-> TRUE,
                  params |-> [namespace |-> namespace, top_k |-> k,
                              vector |-> n.dense, sparse_vector |-> Some(n.sparse)],
                  matches |-> Matches(index_query(st, namespace, k, ranking))]
    ELSE [error |-> NoError, called |-> TRUE,
          params |-> [namespace |-> namespace, top_k |-> k,
                      vector |-> query_embedding, sparse_vector |-> None],
          matches |-> Matches(index_query(st, namespace, k, ranking))]

(***************************************************************************)
(* The query's dense embedding and BM25 sparse vector: the embedding       *)
(* service and the encoder are opaque, their outputs are fixed vectors     *)
(* with no zero component.                                                 *)
(***************************************************************************)
QueryDense == <<Float(2), Float(-3)>>

QuerySparse == [indices |-> <<7, 42>>, values |-> <<Float(1), Float(5)>>]

IdleQuery ==
    [pc |-> "idle", via |-> "none", raw |-> EmptyStr, ns |-> EmptyStr, k |-> 0,
     alpha |-> Float(0), listed |-> FALSE, available |-> {}, embedded |-> FALSE, encoded |-> FALSE,
     argDense |-> <<>>, argSparse |-> None, searched |-> FALSE,
     params |-> NoParams, matches |-> <<>>, answered |-> FALSE,
     context |-> <<>>, sources |-> <<>>, error |-> NoError, status |-> 0]

IdleDel ==
    [pc |-> "idle", via |-> "none", raw |-> EmptyStr, ns |-> EmptyStr,
     before |-> {}, called |-> FALSE, error |-> NoError, status |-> 0]

\* A response that has been returned is kept until the next call starts.
Settle(rec, idle) == IF rec.pc = "done" THEN idle ELSE rec

(***************************************************************************)
(* Direct calls of the gateway.  A delete may run between two batches of   *)
(* an upload; a search is taken when no upload is in its loop.             *)
(***************************************************************************)
UploadShapes == (0..MaxRecords) \X ((1..MaxBatch) \cup {DefaultBatchSize})

GwUpload(namespace, doc, n, b) ==
    /\ up.pc # "loop"
    /\ LET vectors == [j \in 1..n |-> Vector(namespace, doc, j)]
           u == [IdleUp EXCEPT !.via = "gateway", !.raw = namespace,
                               !.fresh = namespace \notin describe_index_stats(store)]
       IN up' = upload_vectors(u, vectors, namespace, b)
    /\ q' = Settle(q, IdleQuery)
    /\ del' = Settle(del, IdleDel)
    /\ UNCHANGED <<store, nm>>

\* upload_document and upload_url: 200, or 500 for any exception.
upload_response(u) ==
    IF u.via = "gateway" \/ u.pc # "done" THEN u
    ELSE [u EXCEPT !.status = IF u.error = NoError THEN 200 ELSE 500]

UploadStep(fails) ==
    /\ up.pc = "loop"
    /\ up' = upload_response(upload_vectors_iter(up, fails))
    /\ store' = upload_vectors_store(store, up, fails)
    /\ q' = Settle(q, IdleQuery)
    /\ del' = Settle(del, IdleDel)
    /\ UNCHANGED nm

GwDelete(namespace) ==
    /\ LET r == delete_namespace(store, namespace)
       IN /\ del' = [IdleDel EXCEPT !.pc = "done", !.via = "gateway",
                                    !.raw = namespace, !.ns = namespace,
                                    !.before = store, !.called = r.called,
                                    !.error = r.error]
          /\ store' = r.store
    /\ up' = IF up.pc = "loop" /\ up.fresh /\ namespace = up.ns
              THEN [up EXCEPT !.cut = Len(up.calls)]
              ELSE Settle(up, IdleUp)
    /\ q' = Settle(q, IdleQuery)
    /\ UNCHANGED nm

GwSearch(namespace, k, sparse, alpha, ranking) ==
    /\ q.pc # "checked"
    /\ up.pc # "loop"
    /\ LET r == similarity_search(store, QueryDense, namespace, k, sparse, alpha, ranking)
       IN q' = [IdleQuery EXCEPT !.pc = "done", !.via = "gateway",
                                 !.raw = namespace, !.ns = namespace, !.k = k,
                                 !.alpha = alpha, !.argDense = QueryDense,
                                 !.argSparse = sparse, !.searched = r.called,
                                 !.params = r.params, !.matches = r.matches,
                                 !.error = r.error]
    /\ up' = Settle(up, IdleUp)
    /\ del' = Settle(del, IdleDel)
    /\ UNCHANGED <<store, nm>>

\* Dense-only calls leave alpha at its default; hybrid calls choose it.
SearchCalls ==
    {<<None, DefaultAlpha>>} \cup {<<Some(QuerySparse), a>> : a \in CallAlphas}

InitGateway ==
    /\ store = {}
    /\ up = IdleUp
    /\ q = IdleQuery
    /\ del = IdleDel
    /\ nm = IdleNorm

NextGateway ==
    \/ \E namespace \in GatewayNames, shape \in UploadShapes :
          GwUpload(namespace, Doc, shape[1], shape[2])
    \/ \E fails \in BOOLEAN : UploadStep(fails)
    \/ \E namespace \in GatewayNames : GwDelete(namespace)
    \/ \E namespace \in GatewayNames, k \in 1..MaxK, call \in SearchCalls,
          ranking \in Rankings :
          GwSearch(namespace, k, call[1], call[2], ranking)

SpecGateway == InitGateway /\ [][NextGateway]_vars

(***************************************************************************)
(* The normalizer on its own.                                              *)
(***************************************************************************)
InitNorm ==
    /\ store = {}
    /\ up = IdleUp
    /\ q = IdleQuery
    /\ del = IdleDel
    /\ \E d \in DenseVectors, s \in SparseVectors, a \in Alphas :
          nm = [IdleNorm EXCEPT !.pc = "ready", !.dense = d, !.sparse = s,
                                !.alpha = a, !.dense0 = d, !.sparse0 = s]

NextNorm == NormCall

SpecNorm == InitNorm /\ [][NextNorm]_vars

(***************************************************************************)
(* QueryRequest.validate_namespace: v.strip().lower().replace(' ', '_'),   *)
(* on the characters the namespaces above are written with.                *)
(***************************************************************************)
RECURSIVE LStrip(_)
LStrip(s) == IF s # <<>> /\ Head(s) = " " THEN LStrip(Tail(s)) ELSE s

RECURSIVE RStrip(_)
RStrip(s) ==
    IF s # <<>> /\ s[Len(s)] = " " THEN RStrip(SubSeq(s, 1, Len(s) - 1)) ELSE s

Strip(s) == RStrip(LStrip(s))

LowerOf == [M |-> "m", Y |-> "y", B |-> "b", O |-> "o", K |-> "k"]

Lower(s) ==
    [i \in 1..Len(s) |-> IF s[i] \in DOMAIN LowerOf THEN LowerOf[s[i]] ELSE s[i]]

Replace(s, old, new) == [i \in 1..Len(s) |-> IF s[i] = old THEN new ELSE s[i]]

validate_namespace(v) ==
    IF Strip(v) = <<>>
    THEN [ok |-> FALSE, value |-> v]
    ELSE [ok |-> TRUE, value |-> Replace(Lower(Strip(v)), " ", "_")]

\* QueryRequest: the namespace validator, 0 <= alpha <= 1, 1 <= k <= 100.
QueryRequest(raw, k, alpha) ==
    LET v == validate_namespace(raw)
    IN [ok |-> v.ok /\ ~Less(alpha, Float(0)) /\ ~Less(Float(1), alpha)
                    /\ k >= 1 /\ k <= 100,
        namespace |-> v.value]

(***************************************************************************)
(* RAGService.query, in two steps: the namespace check, then the search    *)
(* and the answer.  A delete may run between the two.  A document has at   *)
(* most MaxChunks chunks, fewer than one batch, so an upload through the   *)
(* handlers is one provider call; the handlers are not interleaved with    *)
(* it (SpecGateway interleaves deletes with the batches of an upload).     *)
(***************************************************************************)
NamespaceNotFound(namespace, available) ==
    ValueError(<<"Namespace does not exist. Available namespaces", namespace, available>>)

NoResultsFound(namespace) ==
    ValueError(<<"No results found in namespace", namespace>>)

Separator == <<"\n\n", 0>>

RECURSIVE Join(_)
Join(texts) ==
    IF Len(texts) <= 1 THEN texts
    ELSE <<Head(texts), Separator>> \o Join(Tail(texts))

Source(match) == [id |-> match.id, content |-> match.text]

\* The check left out: every namespace passes.
QueryBeginNoCheck(u, st) ==
    [u EXCEPT !.pc = "checked", !.listed = TRUE, !.available = list_namespaces(st)]

rag_query_begin(u, st) ==
    LET available == list_namespaces(st)
    IN IF u.ns \notin available
       THEN [u EXCEPT !.pc = "done", !.listed = TRUE, !.available = available,
                      !.error = NamespaceNotFound(u.ns, available)]
       ELSE [u EXCEPT !.pc = "checked", !.listed = TRUE, !.available = available]

\* The test for an empty result left out.
QueryFinishNoEmptyTest(u, st, ranking) ==
    LET r == similarity_search(st, QueryDense, u.ns, u.k, Some(QuerySparse),
                               u.alpha, ranking)
        texts == [j \in 1..Len(r.matches) |-> r.matches[j].text]
    IN [u EXCEPT !.pc = "done", !.embedded = TRUE, !.encoded = TRUE,
                 !.argDense = QueryDense, !.argSparse = Some(QuerySparse),
                 !.searched = r.called, !.params = r.params,
                 !.matches = r.matches, !.answered = TRUE,
                 !.context = Join(texts),
                 !.sources = [j \in 1..Len(r.matches) |-> Source(r.matches[j])]]

\* The sources listed from the last match to the first.
QueryFinishSourcesReversed(u, st, ranking) ==
    LET r == similarity_search(st, QueryDense, u.ns, u.k, Some(QuerySparse),
                               u.alpha, ranking)
        v == [u EXCEPT !.pc = "done", !.embedded = TRUE, !.encoded = TRUE,
                       !.argDense = QueryDense, !.argSparse = Some(QuerySparse),
                       !.searched = r.called, !.params = r.params,
                       !.matches = r.matches]
        texts == [j \in 1..Len(r.matches) |-> r.matches[j].text]
        m == Len(r.matches)
    IN IF r.error # NoError THEN [v EXCEPT !.error = r.error]
       ELSE IF r.matches = <<>> THEN [v EXCEPT !.error = NoResultsFound(u.ns)]
       ELSE [v EXCEPT !.answered = TRUE, !.context = Join(texts),
                      !.sources = [j \in 1..m |-> Source(r.matches[m + 1 - j])]]

\* The orchestrator scales the vectors itself before it calls the search.
QueryFinishPreScaled(u, st, ranking) ==
    LET n == hybrid_score_norm(QueryDense, QuerySparse, u.alpha)
        r == similarity_search(st, n.dense, u.ns, u.k, Some(n.sparse),
                               u.alpha, ranking)
        v == [u EXCEPT !.pc = "done", !.embedded = TRUE, !.encoded = TRUE,
                       !.argDense = n.dense, !.argSparse = Some(n.sparse),
                       !.searched = r.called, !.params = r.params,
                       !.matches = r.matches]
        texts == [j \in 1..Len(r.matches) |-> r.matches[j].text]
    IN IF r.error # NoError THEN [v EXCEPT !.error = r.error]
       ELSE IF r.matches = <<>> THEN [v EXCEPT !.error = NoResultsFound(u.ns)]
       ELSE [v EXCEPT !.answered = TRUE, !.context = Join(texts),
                      !.sources = [j \in 1..Len(r.matches) |-> Source(r.matches[j])]]

rag_query_finish(u, st, ranking) ==
    LET r == similarity_search(st, QueryDense, u.ns, u.k, Some(QuerySparse),
                               u.alpha, ranking)
        v == [u EXCEPT !.pc = "done", !.embedded = TRUE, !.encoded = TRUE,
                       !.argDense = QueryDense, !.argSparse = Some(QuerySparse),
                       !.searched = r.called, !.params = r.params,
                       !.matches = r.matches]
        texts == [j \in 1..Len(r.matches) |-> r.matches[j].text]
    IN IF r.error # NoError THEN [v EXCEPT !.error = r.error]
       ELSE IF r.matches = <<>> THEN [v EXCEPT !.error = NoResultsFound(u.ns)]
       ELSE [v EXCEPT !.answered = TRUE, !.context = Join(texts),
                      !.sources = [j \in 1..Len(r.matches) |-> Source(r.matches[j])]]

\* query_document: 200, 404 for a ValueError, 500 for any other exception.
query_response(u) ==
    IF u.pc # "done" THEN u
    ELSE [u EXCEPT !.status = IF u.error = NoError THEN 200
                              ELSE IF u.error.kind = "ValueError" THEN 404
                              ELSE 500]

HttpQuery(raw, k, alpha) ==
    /\ q.pc # "checked"
    /\ up.pc # "loop"
    /\ LET req == QueryRequest(raw, k, alpha)
           u == [IdleQuery EXCEPT !.via = "http", !.raw = raw,
                                  !.ns = req.namespace, !.k = k, !.alpha = alpha]
       IN q' = IF ~req.ok THEN [u EXCEPT !.pc = "done", !.status = 422]
               ELSE query_response(rag_query_begin(u, store))
    /\ up' = Settle(up, IdleUp)
    /\ del' = Settle(del, IdleDel)
    /\ UNCHANGED <<store, nm>>

HttpQueryFinish(ranking) ==
    /\ q.pc = "checked"
    /\ q' = query_response(rag_query_finish(q, store, ranking))
    /\ up' = Settle(up, IdleUp)
    /\ del' = Settle(del, IdleDel)
    /\ UNCHANGED <<store, nm>>

(***************************************************************************)
(* RAGService.process_document and process_url_document: load, chunk,      *)
(* embed, encode, zip, upload.  loads: the loader returns the pages;       *)
(* nChunks, nEmb, nSp: the lengths of the chunk list and of the lists the  *)
(* embedding service and the BM25 encoder return for it.                   *)
(***************************************************************************)
DefaultNamespace ==
    <<"t", "h", "i", "n", "k", "-", "a", "n", "d", "-", "g", "r", "o", "w", "-",
      "r", "i", "c", "h">>

LoadError == [kind |-> "Exception", msg |-> <<"Failed to load PDF">>]

\* zip(chunks, embeddings, sparse_vectors), enumerated from 1.
Assemble(namespace, nChunks, nEmb, nSp) ==
    [j \in 1..Min(nChunks, Min(nEmb, nSp)) |-> Vector(namespace, Doc, j)]

process_document(u, namespace, loads, nChunks, nEmb, nSp) ==
    IF ~loads THEN [u EXCEPT !.pc = "done", !.ns = namespace, !.error = LoadError]
    ELSE upload_vectors([u EXCEPT !.nChunks = nChunks, !.nEmb = nEmb, !.nSp = nSp],
                        Assemble(namespace, nChunks, nEmb, nSp), namespace,
                        DefaultBatchSize)

process_url_document(u, namespace, loads, nChunks, nEmb, nSp) ==
    IF ~loads THEN [u EXCEPT !.pc = "done", !.ns = namespace, !.error = LoadError]
    ELSE upload_vectors([u EXCEPT !.nChunks = nChunks, !.nEmb = nEmb, !.nSp = nSp],
                        Assemble(namespace, nChunks, nEmb, nSp), namespace,
                        DefaultBatchSize)

\* The lists the two encoders return: one entry per chunk, or one short.
ReturnedLengths(nChunks) == {n \in {nChunks - 1, nChunks} : n >= 0}

\* upload_document: namespace or "think-and-grow-rich".
HttpUploadFile(namespace, loads, nChunks, nEmb, nSp) ==
    /\ up.pc # "loop"
    /\ q.pc # "checked"
    /\ LET ns == IF namespace = None \/ namespace = Some(EmptyStr)
                 THEN DefaultNamespace ELSE namespace[1]
           u == [IdleUp EXCEPT !.via = "file",
                               !.raw = IF namespace = None THEN EmptyStr
                                       ELSE namespace[1]]
       IN up' = upload_response(process_document(u, ns, loads, nChunks, nEmb, nSp))
    /\ q' = Settle(q, IdleQuery)
    /\ del' = Settle(del, IdleDel)
    /\ UNCHANGED <<store, nm>>

\* upload_url: request.namespace as sent.
HttpUploadUrl(namespace, loads, nChunks, nEmb, nSp) ==
    /\ up.pc # "loop"
    /\ q.pc # "checked"
    /\ LET u == [IdleUp EXCEPT !.via = "url", !.raw = namespace]
       IN up' = upload_response(
                   process_url_document(u, namespace, loads, nChunks, nEmb, nSp))
    /\ q' = Settle(q, IdleQuery)
    /\ del' = Settle(del, IdleDel)
    /\ UNCHANGED <<store, nm>>

\* delete_document: the path parameter as sent; 200, or 500 for any exception.
HttpDelete(namespace) ==
    /\ up.pc # "loop"
    /\ LET r == delete_namespace(store, namespace)
       IN /\ del' = [IdleDel EXCEPT !.pc = "done", !.via = "http",
                                    !.raw = namespace, !.ns = namespace,
                                    !.before = store, !.called = r.called,
                                    !.error = r.error,
                                    !.status = IF r.error = NoError THEN 200 ELSE 500]
          /\ store' = r.store
    /\ up' = Settle(up, IdleUp)
    /\ q' = Settle(q, IdleQuery)
    /\ UNCHANGED nm

UploadNames == {MyBook, RawMyBook, Notes}

Init ==
    /\ store = {}
    /\ up = IdleUp
    /\ q = IdleQuery
    /\ del = IdleDel
    /\ nm = IdleNorm

Next ==
    \/ \E raw \in RawNames, k \in 1..MaxK, alpha \in CallAlphas :
          HttpQuery(raw, k, alpha)
    \/ \E ranking \in Rankings : HttpQueryFinish(ranking)
    \/ \E namespace \in {None} \cup {Some(n) : n \in UploadNames},
          loads \in BOOLEAN, nChunks \in 0..MaxChunks :
          \E nEmb \in ReturnedLengths(nChunks), nSp \in ReturnedLengths(nChunks) :
             HttpUploadFile(namespace, loads, nChunks, nEmb, nSp)
    \/ \E namespace \in UploadNames, loads \in BOOLEAN, nChunks \in 0..MaxChunks :
          \E nEmb \in ReturnedLengths(nChunks), nSp \in ReturnedLengths(nChunks) :
             HttpUploadUrl(namespace, loads, nChunks, nEmb, nSp)
    \/ \E fails \in BOOLEAN : UploadStep(fails)
    \/ \E namespace \in RawNames : HttpDelete(namespace)

Spec == Init /\ [][Next]_vars

(***************************************************************************)
(* Properties.                                                             *)
(***************************************************************************)
InNs(st, namespace) == {r \in st : r.key = namespace}

RECURSIVE Concat(_)
Concat(calls) ==
    IF calls = <<>> THEN <<>> ELSE Head(calls).batch \o Concat(Tail(calls))

BatchSizes(calls) == [j \in 1..Len(calls) |-> Len(calls[j].batch)]

UploadSucceeded ==
    /\ up.pc = "done"
    /\ up.vectors # <<>>
    /\ up.calls # <<>>
    /\ up.error = NoError

ProviderCallFailed ==
    /\ up.pc = "done"
    /\ up.calls # <<>>
    /\ up.error # NoError

Run120 ==
    RunBatches(upload_vectors(IdleUp, [j \in 1..120 |-> Vector(MyBook, Doc, j)],
                              MyBook, DefaultBatchSize))

\* C4: an upload of n >= 1 records with batch size b >= 1 in which no provider
\* call fails issues exactly ceil(n/b) upsert calls, each of b records except
\* possibly the last, and the batches concatenated in issue order are the input
\* list; 120 records with batch size 50 go out as batches of 50, 50 and 20.
BatchesPartitionInput ==
    /\ UploadSucceeded =>
          LET n == Len(up.vectors)
              b == up.batch_size
              m == Len(up.calls)
          IN /\ (m - 1) * b < n
             /\ n <= m * b
             /\ \A j \in 1..(m - 1) : Len(up.calls[j].batch) = b
             /\ Len(up.calls[m].batch) \in 1..b
             /\ Concat(up.calls) = up.vectors
             /\ \A j \in 1..m : up.calls[j].namespace = up.ns
    /\ BatchSizes(Run120.calls) = <<50, 50, 20>>
    /\ Concat(Run120.calls) = Run120.vectors

\* A successful upload of several batches whose last batch is short.
MultiBatchUploadDone ==
    /\ UploadSucceeded
    /\ Len(up.calls) >= 2
    /\ Len(up.calls[Len(up.calls)].batch) < up.batch_size

\* C5: when the provider call for batch i of N fails, the error the caller
\* gets is UpsertBatchFailed with batch_index = i and total_batches = N.
FailureNamesBatch ==
    ProviderCallFailed =>
        /\ up.error.kind = "UpsertBatchFailed"
        /\ up.error.batch_index = up.current_batch
        /\ up.error.total_batches = up.total_batches

\* C6: a batch upserted into namespace A and a delete_namespace(A) leave the
\* records stored under every other namespace as they were, and a search in A
\* returns only records that were built for and upserted into A.
NamespaceIsolation ==
    [][/\ \A fails \in BOOLEAN :
             UploadStep(fails) =>
                 \A b \in (describe_index_stats(store) \cup GatewayNames) \ {up.ns} :
                     InNs(store', b) = InNs(store, b)
       /\ \A a \in GatewayNames :
             GwDelete(a) =>
                 \A b \in (describe_index_stats(store) \cup GatewayNames) \ {a} :
                     InNs(store', b) = InNs(store, b)
       /\ q'.pc = "done" =>
             \A j \in 1..Len(q'.matches) :
                 /\ q'.matches[j].id.ns = q'.ns
                 /\ \E r \in InNs(store', q'.ns) : Match(r) = q'.matches[j]]_vars

\* A delete that emptied one namespace while another one holds records.
DeleteBesideOtherNamespace ==
    /\ del.pc = "done"
    /\ del.called
    /\ InNs(del.before, del.ns) # {}
    /\ \E b \in describe_index_stats(store) : b # del.ns

AlphaInRange(a) == a.num >= 0 /\ a.num <= a.den

\* x = v * f, by cross-multiplication.
IsProduct(x, v, fnum, fden) == x.num * (v.den * fden) = v.num * fnum * x.den

\* C8: hybrid_score_norm returns exactly when 0 <= alpha <= 1 and raises
\* ValueError otherwise; its dense output is the input scaled by alpha, the
\* sparse indices are the input's, the sparse values are scaled by 1 - alpha
\* (alpha = 1: sparse all zero, dense unchanged; alpha = 0: dense all zero,
\* sparse unchanged); the arguments are left as they were.
NormalizerContract ==
    nm.pc = "done" =>
        LET r == nm.out
            a == nm.alpha
        IN /\ r.ok <=> AlphaInRange(a)
           /\ ~r.ok => r.error.kind = "ValueError"
           /\ r.ok =>
                /\ Len(r.dense) = Len(nm.dense0)
                /\ \A i \in 1..Len(nm.dense0) :
                      IsProduct(r.dense[i], nm.dense0[i], a.num, a.den)
                /\ r.sparse.indices = nm.sparse0.indices
                /\ Len(r.sparse.values) = Len(nm.sparse0.values)
                /\ \A i \in 1..Len(nm.sparse0.values) :
                      IsProduct(r.sparse.values[i], nm.sparse0.values[i],
                                a.den - a.num, a.den)
                /\ a = Float(1) =>
                      /\ r.dense = nm.dense0
                      /\ \A i \in 1..Len(r.sparse.values) : r.sparse.values[i] = Float(0)
                /\ a = Float(0) =>
                      /\ r.sparse.values = nm.sparse0.values
                      /\ \A i \in 1..Len(r.dense) : r.dense[i] = Float(0)
           /\ nm.dense = nm.dense0
           /\ nm.sparse = nm.sparse0

\* A call with alpha strictly inside (0, 1) on vectors with non-zero components.
NormalizedInsideRange ==
    /\ nm.pc = "done"
    /\ nm.out.ok
    /\ nm.alpha.num > 0
    /\ nm.alpha.num < nm.alpha.den
    /\ \E i \in 1..Len(nm.dense0) : nm.dense0[i] # Float(0)
    /\ \E i \in 1..Len(nm.sparse0.values) : nm.sparse0.values[i] # Float(0)

\* C1: a query whose namespace is not among the names list_namespaces()
\* returned fails with the namespace-not-found error, which carries the
\* namespace asked for and the names available; nothing was embedded, encoded,
\* searched or answered, and the response is 404, never 500.
MissingNamespaceRejectedFirst ==
    (q.via = "http" /\ q.listed /\ q.ns \notin q.available) =>
        /\ q.pc = "done"
        /\ q.error = NamespaceNotFound(q.ns, q.available)
        /\ q.error.msg[2] = q.ns
        /\ q.error.msg[3] = q.available
        /\ q.status = 404
        /\ ~q.embedded
        /\ ~q.encoded
        /\ ~q.searched
        /\ ~q.answered

\* A query for a namespace that is absent while other namespaces exist.
MissingNamespaceQueried ==
    /\ q.via = "http"
    /\ q.listed
    /\ q.ns \notin q.available
    /\ q.available # {}

\* The namespace was there at the check and the search returned no match.
SearchCameBackEmpty ==
    /\ q.via = "http"
    /\ q.pc = "done"
    /\ q.ns \in q.available
    /\ q.searched
    /\ q.matches = <<>>

\* C2 as claimed: an empty search result fails with NoResultsFound, an error
\* of another kind than NamespaceNotFound, and the answering service is not
\* called.
NoResultsIsItsOwnKind ==
    SearchCameBackEmpty =>
        /\ q.error = NoResultsFound(q.ns)
        /\ q.error.kind # NamespaceNotFound(q.ns, q.available).kind
        /\ ~q.answered

\* C2 as amended: an empty search result fails with a ValueError answered
\* 404, the kind and status of namespace-not-found, told apart from it by the
\* message only, and the answering service is not called.
NoResultsSharesKind ==
    SearchCameBackEmpty =>
        /\ q.error = NoResultsFound(q.ns)
        /\ q.error.kind = "ValueError"
        /\ q.error.kind = NamespaceNotFound(q.ns, q.available).kind
        /\ q.error.msg[1] # NamespaceNotFound(q.ns, q.available).msg[1]
        /\ q.status = 404
        /\ ~q.answered

IsNormalForm(s) ==
    /\ s # <<>>
    /\ \A i \in 1..Len(s) : s[i] # " " /\ s[i] \notin DOMAIN LowerOf

\* C3: every namespace an HTTP request hands to an index operation (upsert,
\* query, delete) is in normal form: trimmed, lower case, no spaces; so a
\* namespace written by an upload under a raw string is the one a query
\* with that raw string looks up.
NamespacesNormalized ==
    /\ up.via \in {"file", "url"} =>
          \A j \in 1..Len(up.calls) : IsNormalForm(up.calls[j].namespace)
    /\ (del.via = "http" /\ del.called) => IsNormalForm(del.ns)
    /\ (q.via = "http" /\ q.searched) => IsNormalForm(q.params.namespace)
    /\ (q.via = "http" /\ q.listed /\ q.raw \in q.available) => q.ns \in q.available

\* C9 as claimed: with a sparse vector given, similarity_search sends the
\* index the dense and sparse vectors it was called with.
SearchSendsArguments ==
    (q.searched /\ q.argSparse # None) =>
        /\ q.params.vector = q.argDense
        /\ q.params.sparse_vector = q.argSparse

\* C9 as amended: with a sparse vector given, similarity_search sends the
\* index the vectors it was called with scaled by hybrid_score_norm, the
\* dense one by alpha and the sparse values by 1 - alpha; without one it
\* sends the dense vector as it is.
SearchSendsScaledArguments ==
    q.searched =>
        IF q.argSparse # None
        THEN /\ Len(q.params.vector) = Len(q.argDense)
             /\ \A i \in 1..Len(q.argDense) :
                   IsProduct(q.params.vector[i], q.argDense[i],
                             q.alpha.num, q.alpha.den)
             /\ q.params.sparse_vector # None
             /\ q.params.sparse_vector[1].indices = q.argSparse[1].indices
             /\ Len(q.params.sparse_vector[1].values) = Len(q.argSparse[1].values)
             /\ \A i \in 1..Len(q.argSparse[1].values) :
                   IsProduct(q.params.sparse_vector[1].values[i],
                             q.argSparse[1].values[i],
                             q.alpha.den - q.alpha.num, q.alpha.den)
             /\ q.params.vector # q.argDense \/ q.params.sparse_vector # q.argSparse
        ELSE /\ q.params.vector = q.argDense
             /\ q.params.sparse_vector = None

\* A hybrid search with alpha strictly inside (0, 1) reached the index.
HybridSearchSent ==
    /\ q.searched
    /\ q.argSparse # None
    /\ q.alpha.num > 0
    /\ q.alpha.num < q.alpha.den

\* C10: an ingestion whose chunk, dense-vector and sparse-vector lists differ
\* in length fails with ArityMismatch and sends nothing to the index.
ArityMismatchFailsFast ==
    (up.via \in {"file", "url"} /\ ~(up.nChunks = up.nEmb /\ up.nEmb = up.nSp)) =>
        /\ up.pc = "done"
        /\ up.error.kind = "ArityMismatch"
        /\ up.calls = <<>>

\* C11: upload_vectors called with an empty namespace fails with the
\* invalid-argument error (ValueError) for every record list, the empty list
\* included, and makes no provider call; similarity_search and
\* delete_namespace with an empty namespace fail the same way without a
\* provider call.
EmptyNamespaceRejected ==
    /\ (up.via = "gateway" /\ up.pc = "done" /\ up.ns = EmptyStr) =>
          /\ up.error.kind = "ValueError"
          /\ up.calls = <<>>
    /\ (q.via = "gateway" /\ q.pc = "done" /\ q.ns = EmptyStr) =>
          /\ q.error.kind = "ValueError"
          /\ ~q.searched
    /\ (del.via = "gateway" /\ del.pc = "done" /\ del.ns = EmptyStr) =>
          /\ del.error.kind = "ValueError"
          /\ ~del.called
          /\ store = del.before

\* Batch j of the partition of an upload's record list.
BatchOf(u, j) == Slice(u.vectors, (j - 1) * u.batch_size, j * u.batch_size)

\* C12: within one upload the provider calls are batches 1, 2, ... of the
\* record list in that order, each sent once, none of them after a call that
\* failed; a failing call ends the upload and leaves the index as it was, and
\* no step of the loop removes a record stored before it.
BatchCallsArePrefix ==
    [][\A fails \in BOOLEAN :
          UploadStep(fails) =>
              LET m == Len(up.calls)
              IN /\ up.error = NoError
                 /\ Len(up'.calls) = m + 1
                 /\ m + 1 <= up.total_batches
                 /\ up'.total_batches = up.total_batches
                 /\ up'.current_batch = m + 1
                 /\ \A j \in 1..m : up'.calls[j] = up.calls[j]
                 /\ \A j \in 1..(m + 1) :
                       /\ up'.calls[j].batch = BatchOf(up', j)
                       /\ up'.calls[j].namespace = up.ns
                 /\ store \subseteq store'
                 /\ fails => /\ up'.pc = "done"
                             /\ up'.error # NoError
                             /\ store' = store
                 /\ (~fails /\ up'.pc = "done") => m + 1 = up.total_batches]_vars

\* A call failed after an earlier batch went through, and the records of the
\* earlier batches are in the index.
FailedAfterStoredBatch ==
    /\ ProviderCallFailed
    /\ Len(up.calls) >= 2
    /\ \A j \in 1..(Len(up.calls) - 1) :
          \A n \in 1..Len(up.calls[j].batch) :
              \E r \in InNs(store, up.ns) : r.id = up.calls[j].batch[n].id

QuerySucceeded ==
    /\ q.via = "http"
    /\ q.pc = "done"
    /\ q.status = 200

\* C13: a query answered 200 returns one source per match the search
\* returned, in the order of the matches, with the match's id and text,
\* between 1 and k of them and no match twice; the context given to the
\* answering service is the texts of those matches in that order with a blank
\* line between two of them.
SourcesMirrorMatches ==
    QuerySucceeded =>
        LET m == Len(q.matches)
        IN /\ q.searched
           /\ q.answered
           /\ m >= 1
           /\ m <= q.k
           /\ Len(q.sources) = m
           /\ \A j \in 1..m :
                 /\ q.sources[j].id = q.matches[j].id
                 /\ q.sources[j].content = q.matches[j].text
           /\ \A i, j \in 1..m : i # j => q.sources[i].id # q.sources[j].id
           /\ Len(q.context) = 2 * m - 1
           /\ \A j \in 1..m : q.context[2 * j - 1] = q.matches[j].text
           /\ \A j \in 1..(m - 1) : q.context[2 * j] = Separator

\* A query answered from two matches that the search ranked against their
\* chunk order.
AnsweredFromTwoMatches ==
    /\ QuerySucceeded
    /\ Len(q.matches) = 2
    /\ q.matches[1].id.chunk > q.matches[2].id.chunk

\* C14: on a query that reaches the index, the orchestrator hands the search
\* the embedding and the sparse vector as the services returned them, and
\* the index receives them scaled once by the request's alpha (0.5 when the
\* request leaves it out): dense = alpha * embedding, sparse values =
\* (1 - alpha) * values, indices unchanged; for alpha strictly between 0 and
\* 1 that is neither the unscaled pair nor the pair scaled by alpha^2 and
\* (1 - alpha)^2.
QueryNormalizedOnce ==
    (q.via = "http" /\ q.searched) =>
        LET a == q.alpha
            sent == q.params
        IN /\ AlphaInRange(a)
           /\ q.argDense = QueryDense
           /\ q.argSparse = Some(QuerySparse)
           /\ sent.sparse_vector # None
           /\ Len(sent.vector) = Len(QueryDense)
           /\ sent.sparse_vector[1].indices = QuerySparse.indices
           /\ Len(sent.sparse_vector[1].values) = Len(QuerySparse.values)
           /\ \A i \in 1..Len(QueryDense) :
                 /\ IsProduct(sent.vector[i], QueryDense[i], a.num, a.den)
                 /\ (a.num > 0 /\ a.num < a.den) =>
                       /\ sent.vector[i] # QueryDense[i]
                       /\ ~IsProduct(sent.vector[i], QueryDense[i],
                                     a.num * a.num, a.den * a.den)
           /\ \A i \in 1..Len(QuerySparse.values) :
                 /\ IsProduct(sent.sparse_vector[1].values[i],
                              QuerySparse.values[i], a.den - a.num, a.den)
                 /\ (a.num > 0 /\ a.num < a.den) =>
                       /\ sent.sparse_vector[1].values[i] # QuerySparse.values[i]
                       /\ ~IsProduct(sent.sparse_vector[1].values[i],
                                     QuerySparse.values[i],
                                     (a.den - a.num) * (a.den - a.num),
                                     a.den * a.den)

\* An HTTP query with the default alpha reached the index.
DefaultAlphaQuerySent ==
    /\ q.via = "http"
    /\ q.searched
    /\ q.alpha = DefaultAlpha
    /\ q.params.vector # <<>>

\* The records of the calls after the first `from` that took effect.
StoredSince(u, from) ==
    LET landed == IF u.error = NoError THEN Len(u.calls) ELSE Len(u.calls) - 1
    IN UNION {{[key |-> u.ns, id |-> u.calls[j].batch[n].id,
                text |-> u.calls[j].batch[n].text] :
                   n \in 1..Len(u.calls[j].batch)} : j \in (from + 1)..landed}

\* C15: an upload into a namespace that held nothing, with deletes of that
\* namespace taken between its batches and no lock between them: the
\* namespace holds exactly the records of the batches sent after the last
\* delete, a suffix of the batch sequence, while the upload runs and once it
\* has returned.
DeleteRaceLeavesSuffix ==
    (up.via = "gateway" /\ up.fresh /\ up.pc \in {"loop", "done"}) =>
        /\ up.cut \in 0..Len(up.calls)
        /\ InNs(store, up.ns) = StoredSince(up, up.cut)

\* An upload that returned without error while its namespace holds some of
\* its records and not all of them.
SuccessWithPartOfRecords ==
    /\ up.via = "gateway"
    /\ up.fresh
    /\ up.pc = "done"
    /\ up.error = NoError
    /\ up.cut >= 1
    /\ InNs(store, up.ns) # {}
    /\ Cardinality(InNs(store, up.ns)) < Len(up.vectors)

====
